---- MODULE Spec2Model ----
(***************************************************************************)
(* transform_bounds (PyKotorGL native helper): the axis-aligned bounding   *)
(* box of a strided buffer of vertex positions under a column-major 4x4    *)
(* matrix.  The model is a C abstract machine: one flat memory of 4-byte   *)
(* words, calls that hold pointer arguments into it, and one action per    *)
(* statement group of the function.                                        *)
(***************************************************************************)
EXTENDS Integers, Sequences, FiniteSets, TLC

\* ---------------------------------------------------------------- bounds
\* Largest number of vertex records in a buffer.
MaxCount == 3
\* Largest finite float magnitude (FLT_MAX scaled down); above it a result
\* rounds to an infinity.
FMax == 20
\* Width of C int (32 in the build, scaled down to keep the state space small).
IntBits == 8

\* ------------------------------------------------------- single precision
\* A float is a finite integer in -FMax..FMax, an infinity or NaN.  The
\* infinities are coded so that integer order is float order on non-NaN.
\* The two zeros are one value (they compare equal in C), so equality of
\* floats below is C's ==, except that NaN = NaN identifies the NaN result.
PInf == FMax + 1
NInf == -(FMax + 1)
NaN == FMax + 2
FloatVal == (NInf..PInf) \cup {NaN}

IsInf(a) == a = PInf \/ a = NInf

Sgn(a) == IF a > 0 THEN 1 ELSE IF a < 0 THEN -1 ELSE 0

\* Rounding of an exact result: overflow goes to the infinity of its sign.
RoundF(r) == IF r > FMax THEN PInf ELSE IF r < -FMax THEN NInf ELSE r

\* float + float
FAdd(a, b) ==
    IF a = NaN \/ b = NaN THEN NaN
    ELSE IF IsInf(a) /\ IsInf(b) THEN (IF a = b THEN a ELSE NaN)
    ELSE IF IsInf(a) THEN a
    ELSE IF IsInf(b) THEN b
    ELSE RoundF(a + b)

\* float * float
FMul(a, b) ==
    IF a = NaN \/ b = NaN THEN NaN
    ELSE IF IsInf(a) \/ IsInf(b)
         THEN (IF a = 0 \/ b = 0 THEN NaN
               ELSE IF Sgn(a) * Sgn(b) > 0 THEN PInf ELSE NInf)
    ELSE RoundF(a * b)

\* float < float and float > float: false as soon as an operand is NaN.
FLt(a, b) == a # NaN /\ b # NaN /\ a < b

FGt(a, b) == a # NaN /\ b # NaN /\ a > b

\* ------------------------------------------------------------ C int
IntMin == -(2 ^ (IntBits - 1))
IntMax == 2 ^ (IntBits - 1) - 1
InInt(v) == IntMin <= v /\ v <= IntMax
WrapInt(v) == ((v - IntMin) % (2 ^ IntBits)) + IntMin

\* A slip: the position's offset within the record is left out.
IntOffset_NoOffset(i, stride_bytes, position_offset) == {i * stride_bytes}

\* i * stride_bytes + position_offset in int arithmetic.  Signed overflow is
\* undefined: the build either wraps (two's complement registers) or, having
\* widened the induction variable to pointer width, yields the exact value.
IntOffset(i, stride_bytes, position_offset) ==
    IF InInt(i * stride_bytes)
       /\ InInt(i * stride_bytes + position_offset)
    THEN {i * stride_bytes + position_offset}
    ELSE {WrapInt(WrapInt(i * stride_bytes) + position_offset),
          i * stride_bytes + position_offset}

\* ------------------------------------------------------------ state
VARIABLES
    mem,      \* memory: word index -> float; the word at byte address 4*w
    args,     \* call -> the seven arguments of transform_bounds
    after,    \* call -> the calls the caller lets return before it starts
    pc,       \* call -> position in the function
    loc,      \* call -> the locals (m00..m23, minx..maxz, i, pos)
    reads,    \* call -> word indices the call has read (observer)
    wcount    \* call -> word index -> number of stores by the call (observer)

vars == <<mem, args, after, pc, loc, reads, wcount>>

NULL == 0
WordOf(addr) == addr \div 4
ValidAddr(addr) == addr % 4 = 0 /\ WordOf(addr) \in DOMAIN mem

\* Outcome of a load that is not a float: the process is killed.
Fault == FMax + 3
\* What a load outside every object can yield besides a fault.
GarbageVals == {0, NaN}

\* pos[k]: the float at a byte address; outside memory the load is undefined.
Load(addr) ==
    IF ValidAddr(addr) THEN {mem[WordOf(addr)]} ELSE GarbageVals \cup {Fault}

\* A slip: the matrix indexed as if it were row-major.
MatrixAt_RowMajor(a, j) == mem[WordOf(a.matrix) + 4 * (j % 4) + (j \div 4)]

\* matrix[j]: the caller guarantees 16 floats.
MatrixAt(a, j) == mem[WordOf(a.matrix) + j]

\* p[0] = v0; p[1] = v1; p[2] = v2
Store3(m, addr, v0, v1, v2) ==
    [w \in DOMAIN m |->
        IF w = WordOf(addr) THEN v0
        ELSE IF w = WordOf(addr) + 1 THEN v1
        ELSE IF w = WordOf(addr) + 2 THEN v2
        ELSE m[w]]

Words3(addr) == WordOf(addr) .. (WordOf(addr) + 2)

Count3(wc, addr) ==
    [w \in DOMAIN wc |-> IF w \in Words3(addr) THEN wc[w] + 1 ELSE wc[w]]

\* The caller's ordering of calls: a call starts once those it follows are done.
CanRun(c) == \A d \in after[c] : pc[d] \in {"done", "fault"}

\* A slip: the locals declared static, one frame for every call.
Frame_Static(c) == 1

\* The locals have automatic storage: each call has a frame of its own.
Frame(c) == c

\* A slip: < for <=, an empty count taking the main path.
IsDegenerate_NoZero(a) == a.vertices = NULL \/ a.vertex_count < 0

\* if (!vertices || vertex_count <= 0)
IsDegenerate(a) == a.vertices = NULL \/ a.vertex_count <= 0

\* Indices of the matrix the function loads, in load order.
MatrixLoads == <<0, 4, 8, 12, 1, 5, 9, 13, 2, 6, 10, 14>>

\* A slip: the translation column left out.
AffineRow_NoTranslation(c0, c1, c2, c3, x, y, z) ==
    FAdd(FAdd(FMul(c0, x), FMul(c1, y)), FMul(c2, z))

\* m_k0*x + m_k1*y + m_k2*z + m_k3, left to right.
AffineRow(c0, c1, c2, c3, x, y, z) ==
    FAdd(FAdd(FAdd(FMul(c0, x), FMul(c1, y)), FMul(c2, z)), c3)

\* A slip: > typed for < in the min update.
StepMin_Greater(cur, t) == IF FGt(t, cur) THEN t ELSE cur

\* A variant: !(t >= min), which is true on NaN.
StepMin_Unordered(cur, t) ==
    IF ~(t # NaN /\ cur # NaN /\ t >= cur) THEN t ELSE cur

\* if (t < min) min = t;
StepMin(cur, t) == IF FLt(t, cur) THEN t ELSE cur

\* A slip: the max update pasted from the min update, < kept.
StepMax_CopyPaste(cur, t) == IF FLt(t, cur) THEN t ELSE cur

\* if (t > max) max = t;
StepMax(cur, t) == IF FGt(t, cur) THEN t ELSE cur

\* A slip: the reset placed on the second record.
IsFirst_OffByOne(i) == i = 1

\* if (i == 0)
IsFirst(i) == i = 0

ZeroLocals ==
    [m00 |-> 0, m01 |-> 0, m02 |-> 0, m03 |-> 0,
     m10 |-> 0, m11 |-> 0, m12 |-> 0, m13 |-> 0,
     m20 |-> 0, m21 |-> 0, m22 |-> 0, m23 |-> 0,
     minx |-> 0, maxx |-> 0, miny |-> 0, maxy |-> 0, minz |-> 0, maxz |-> 0,
     i |-> 0, pos |-> NULL]

\* ------------------------------------------------------------ actions
\* out_min[0] = out_min[1] = out_min[2] = 0.0f;
DegenMin(c) ==
    /\ pc[c] = "entry"
    /\ CanRun(c)
    /\ IsDegenerate(args[c])
    /\ mem' = Store3(mem, args[c].out_min, 0, 0, 0)
    /\ wcount' = [wcount EXCEPT ![c] = Count3(@, args[c].out_min)]
    /\ pc' = [pc EXCEPT ![c] = "zero_max"]
    /\ UNCHANGED <<args, after, loc, reads>>

\* out_max[0] = out_max[1] = out_max[2] = 0.0f; return;
DegenMax(c) ==
    /\ pc[c] = "zero_max"
    /\ mem' = Store3(mem, args[c].out_max, 0, 0, 0)
    /\ wcount' = [wcount EXCEPT ![c] = Count3(@, args[c].out_max)]
    /\ pc' = [pc EXCEPT ![c] = "done"]
    /\ UNCHANGED <<args, after, loc, reads>>

\* The twelve coefficient loads, the zero seeds and the loop's int i = 0.
LoadMatrix(c) ==
    /\ pc[c] = "entry"
    /\ CanRun(c)
    /\ ~IsDegenerate(args[c])
    /\ loc' = [loc EXCEPT ![Frame(c)] =
          [m00 |-> MatrixAt(args[c], MatrixLoads[1]),
           m01 |-> MatrixAt(args[c], MatrixLoads[2]),
           m02 |-> MatrixAt(args[c], MatrixLoads[3]),
           m03 |-> MatrixAt(args[c], MatrixLoads[4]),
           m10 |-> MatrixAt(args[c], MatrixLoads[5]),
           m11 |-> MatrixAt(args[c], MatrixLoads[6]),
           m12 |-> MatrixAt(args[c], MatrixLoads[7]),
           m13 |-> MatrixAt(args[c], MatrixLoads[8]),
           m20 |-> MatrixAt(args[c], MatrixLoads[9]),
           m21 |-> MatrixAt(args[c], MatrixLoads[10]),
           m22 |-> MatrixAt(args[c], MatrixLoads[11]),
           m23 |-> MatrixAt(args[c], MatrixLoads[12]),
           minx |-> 0, maxx |-> 0, miny |-> 0, maxy |-> 0,
           minz |-> 0, maxz |-> 0,
           i |-> 0, pos |-> NULL]]
    /\ reads' = [reads EXCEPT ![c] =
          @ \cup {WordOf(args[c].matrix) + MatrixLoads[n] : n \in 1..12}]
    /\ pc' = [pc EXCEPT ![c] = "loop"]
    /\ UNCHANGED <<mem, args, after, wcount>>

\* One iteration of the for loop: address, three loads, transform, reduce, ++i.
LoopIter(c) ==
    /\ pc[c] = "loop"
    /\ loc[Frame(c)].i < args[c].vertex_count
    /\ \E off \in IntOffset(loc[Frame(c)].i, args[c].stride_bytes,
                            args[c].position_offset) :
         LET p == args[c].vertices + off
             l == loc[Frame(c)]
         IN \E x \in Load(p), y \in Load(p + 4), z \in Load(p + 8) :
              IF Fault \in {x, y, z}
              THEN /\ pc' = [pc EXCEPT ![c] = "fault"]
                   /\ loc' = [loc EXCEPT ![Frame(c)] = [l EXCEPT !.pos = p]]
                   /\ UNCHANGED reads
              ELSE LET tx == AffineRow(l.m00, l.m01, l.m02, l.m03, x, y, z)
                       ty == AffineRow(l.m10, l.m11, l.m12, l.m13, x, y, z)
                       tz == AffineRow(l.m20, l.m21, l.m22, l.m23, x, y, z)
                       first == IsFirst(l.i)
                   IN /\ loc' = [loc EXCEPT ![Frame(c)] =
                            [l EXCEPT
                               !.minx = IF first THEN tx ELSE StepMin(l.minx, tx),
                               !.maxx = IF first THEN tx ELSE StepMax(l.maxx, tx),
                               !.miny = IF first THEN ty ELSE StepMin(l.miny, ty),
                               !.maxy = IF first THEN ty ELSE StepMax(l.maxy, ty),
                               !.minz = IF first THEN tz ELSE StepMin(l.minz, tz),
                               !.maxz = IF first THEN tz ELSE StepMax(l.maxz, tz),
                               !.i = l.i + 1,
                               !.pos = p]]
                      /\ reads' = [reads EXCEPT ![c] =
                            @ \cup {WordOf(p), WordOf(p + 4), WordOf(p + 8)}]
                      /\ UNCHANGED pc
    /\ UNCHANGED <<mem, args, after, wcount>>

\* Loop exit, then out_min[0] = minx; out_min[1] = miny; out_min[2] = minz;
WriteMin(c) ==
    /\ pc[c] = "loop"
    /\ ~(loc[Frame(c)].i < args[c].vertex_count)
    /\ mem' = Store3(mem, args[c].out_min, loc[Frame(c)].minx, loc[Frame(c)].miny, loc[Frame(c)].minz)
    /\ wcount' = [wcount EXCEPT ![c] = Count3(@, args[c].out_min)]
    /\ pc' = [pc EXCEPT ![c] = "write_max"]
    /\ UNCHANGED <<args, after, loc, reads>>

\* out_max[0] = maxx; out_max[1] = maxy; out_max[2] = maxz; and the return.
WriteMax(c) ==
    /\ pc[c] = "write_max"
    /\ mem' = Store3(mem, args[c].out_max, loc[Frame(c)].maxx, loc[Frame(c)].maxy, loc[Frame(c)].maxz)
    /\ wcount' = [wcount EXCEPT ![c] = Count3(@, args[c].out_max)]
    /\ pc' = [pc EXCEPT ![c] = "done"]
    /\ UNCHANGED <<args, after, loc, reads>>

Next ==
    \/ \E c \in DOMAIN args : DegenMin(c)
    \/ \E c \in DOMAIN args : DegenMax(c)
    \/ \E c \in DOMAIN args : LoadMatrix(c)
    \/ \E c \in DOMAIN args : LoopIter(c)
    \/ \E c \in DOMAIN args : WriteMin(c)
    \/ \E c \in DOMAIN args : WriteMax(c)

\* ------------------------------------------------------------ callers
\* Column-major 4x4 matrix from its four rows: row r, column c at 4*c + r.
MkMatrix(r0, r1, r2, r3) ==
    [j \in 1..16 |-> <<r0, r1, r2, r3>>[((j - 1) % 4) + 1][((j - 1) \div 4) + 1]]

AffineLast == <<0, 0, 0, 1>>

\* The upper three rows of the matrices the callers pass.
IdentityRows == <<<<1, 0, 0, 0>>, <<0, 1, 0, 0>>, <<0, 0, 1, 0>>>>

UniformScaleRows(s) == <<<<s, 0, 0, 0>>, <<0, s, 0, 0>>, <<0, 0, s, 0>>>>

ScaleVals == {2, -1, -2}

\* scale(2) then translate(10,0,0)
ScaleTranslateRows == <<<<2, 0, 0, 10>>, <<0, 2, 0, 0>>, <<0, 0, 2, 0>>>>

\* a rotation about z with a translation
RotationRows == <<<<0, -1, 0, 1>>, <<1, 0, 0, 0>>, <<0, 0, 1, -2>>>>

\* a shear with rows of mixed sign
ShearRows == <<<<2, -2, 0, 0>>, <<0, 1, 3, 0>>, <<1, 0, -1, 4>>>>

Affine(rows, last) == MkMatrix(rows[1], rows[2], rows[3], last)

AffinePool ==
    {IdentityRows, ScaleTranslateRows, RotationRows, ShearRows}
        \cup {UniformScaleRows(s) : s \in ScaleVals}

MatrixPool == {Affine(rows, AffineLast) : rows \in AffinePool}

\* Vertex positions a buffer may hold: any float bit pattern is possible.
VertexPool ==
    {<<0, 0, 0>>, <<1, 2, 3>>, <<-1, 5, 0>>, <<15, 15, -4>>, <<NaN, 0, 1>>,
     <<2, PInf, -3>>}

SeqsUpTo(S, n) == UNION {[1..k -> S] : k \in 0..n}

\* Prior contents of the output arrays and of padding.
Junk == 7

\* A vertex buffer: records of strideW words, the position at word offW.
VBuf(ps, strideW, offW, padB, padA) ==
    [w \in 1..(Len(ps) * strideW) |->
        LET r == (w - 1) \div strideW
            k == (w - 1) % strideW
        IN IF k < offW THEN padB
           ELSE IF k < offW + 3 THEN ps[r + 1][k - offW + 1]
           ELSE padA]

Packed == [stride |-> 12, offset |-> 0]

Layouts == {Packed, [stride |-> 20, offset |-> 4]}

Modes == {"normal", "null", "zero", "negative"}

CountFor(mode, ps) ==
    IF mode = "zero" THEN 0 ELSE IF mode = "negative" THEN -1 ELSE Len(ps)

CallArgs(vptr, cnt, L, mptr, omin, omax) ==
    [vertices |-> vptr, vertex_count |-> cnt, stride_bytes |-> L.stride,
     position_offset |-> L.offset, matrix |-> mptr,
     out_min |-> omin, out_max |-> omax]

Start(m0, a, aft) ==
    /\ mem = m0
    /\ args = a
    /\ after = aft
    /\ pc = [c \in DOMAIN a |-> "entry"]
    /\ loc = [c \in DOMAIN a |-> ZeroLocals]
    /\ reads = [c \in DOMAIN a |-> {}]
    /\ wcount = [c \in DOMAIN a |-> [w \in DOMAIN m0 |-> 0]]

Junk3 == <<Junk, Junk, Junk>>

\* One call: matrix at word 1, out_min at 17, out_max at 20, vertices at 23.
Init ==
    \E ps \in SeqsUpTo(VertexPool, MaxCount), M \in MatrixPool,
       L \in Layouts, mode \in Modes :
        Start(M \o Junk3 \o Junk3
                \o VBuf(ps, L.stride \div 4, L.offset \div 4, Junk, Junk),
              [c \in {1} |->
                 CallArgs(IF mode = "null" THEN NULL ELSE 4 * 23,
                          CountFor(mode, ps), L, 4 * 1, 4 * 17, 4 * 20)],
              [c \in {1} |-> {}])

Spec == Init /\ [][Next]_vars

\* A call's objects laid out from word b: matrix, out_min, out_max, vertices.
Block(M, prior, buf) == M \o <<prior, prior, prior>> \o <<prior, prior, prior>> \o buf

BlockArgs(b, isNull, cnt, L) ==
    CallArgs(IF isNull THEN NULL ELSE 4 * (b + 22), cnt, L,
             4 * b, 4 * (b + 16), 4 * (b + 19))

PairModes == {"normal", "null", "zero"}

\* Two calls one after the other, each on objects of its own.
StartPair(block1, a1, block2, a2) ==
    Start(block1 \o block2,
          [c \in {1, 2} |-> IF c = 1 THEN a1 ELSE a2],
          [c \in {1, 2} |-> IF c = 1 THEN {} ELSE {1}])

Reorderings(n) == {f \in [1..n -> 1..n] : \A a, b \in 1..n : f[a] = f[b] => a = b}

PermMatrices ==
    {Affine(rows, AffineLast) : rows \in {IdentityRows, RotationRows, ShearRows}}

PermPool == {<<1, 2, 3>>, <<-1, 5, 0>>, <<15, 15, -4>>, <<NaN, 0, 1>>}

\* The same records in two orders, same matrix, stride and offset.
InitPerm ==
    \E ps \in SeqsUpTo(PermPool, MaxCount), M \in PermMatrices, mode \in PairModes :
      \E f \in Reorderings(Len(ps)) :
        LET qs == [n \in 1..Len(ps) |-> ps[f[n]]]
            b1 == Block(M, Junk, VBuf(ps, 3, 0, Junk, Junk))
            b2 == Block(M, Junk, VBuf(qs, 3, 0, Junk, Junk))
        IN StartPair(b1, BlockArgs(1, mode = "null", CountFor(mode, ps), Packed),
                     b2, BlockArgs(1 + Len(b1), mode = "null", CountFor(mode, ps), Packed))

SpecPerm == InitPerm /\ [][Next]_vars

\* Records with padding before and/or after the position.
PaddedLayouts ==
    {[stride |-> 16, offset |-> 0], [stride |-> 16, offset |-> 4],
     [stride |-> 20, offset |-> 4], [stride |-> 24, offset |-> 8]}

\* Padding contents: before and after the position.
PadPairs == {<<Junk, Junk>>, <<NaN, -3>>, <<PInf, NaN>>}

LayoutMatrices == {Affine(rows, AffineLast) : rows \in {ScaleTranslateRows, ShearRows}}

\* The same positions in a padded buffer (call 1) and tightly packed (call 2).
InitLayout ==
    \E ps \in SeqsUpTo(VertexPool, MaxCount), M \in LayoutMatrices,
       L \in PaddedLayouts, pad \in PadPairs, mode \in PairModes :
        LET b1 == Block(M, Junk, VBuf(ps, L.stride \div 4, L.offset \div 4, pad[1], pad[2]))
            b2 == Block(M, Junk, VBuf(ps, 3, 0, Junk, Junk))
        IN StartPair(b1, BlockArgs(1, mode = "null", CountFor(mode, ps), L),
                     b2, BlockArgs(1 + Len(b1), mode = "null", CountFor(mode, ps), Packed))

SpecLayout == InitLayout /\ [][Next]_vars

\* Last rows and prior output contents a caller may pass.
LastRows == {AffineLast, <<NaN, NaN, NaN, NaN>>, <<3, -2, 5, 0>>}

PriorVals == {Junk, NaN, 0}

IndepRows == {ScaleTranslateRows, ShearRows}

\* Two calls that agree on everything but the matrix's last row and the prior
\* contents of the output arrays.
InitIndep ==
    \E ps \in SeqsUpTo(VertexPool, MaxCount), rows \in IndepRows,
       last \in LastRows, prior \in PriorVals, mode \in PairModes :
        LET b1 == Block(Affine(rows, AffineLast), Junk, VBuf(ps, 3, 0, Junk, Junk))
            b2 == Block(Affine(rows, last), prior, VBuf(ps, 3, 0, Junk, Junk))
        IN StartPair(b1, BlockArgs(1, mode = "null", CountFor(mode, ps), Packed),
                     b2, BlockArgs(1 + Len(b1), mode = "null", CountFor(mode, ps), Packed))

SpecIndep == InitIndep /\ [][Next]_vars

ConcMatrices == {Affine(rows, AffineLast) : rows \in {RotationRows, ShearRows}}

\* Calls 1 and 2 run in parallel (the binding releases the GIL around the call)
\* on one vertex buffer and one matrix, each with an output pair of its own;
\* call 3 is the same call made alone, after both returned.
InitConc ==
    \E ps \in SeqsUpTo(VertexPool, MaxCount), M \in ConcMatrices, mode \in PairModes :
        Start(M \o Junk3 \o Junk3 \o Junk3 \o Junk3 \o Junk3 \o Junk3
                \o VBuf(ps, 3, 0, Junk, Junk),
              [c \in {1, 2, 3} |->
                 CallArgs(IF mode = "null" THEN NULL ELSE 4 * 35,
                          CountFor(mode, ps), Packed, 4 * 1,
                          4 * (17 + 6 * (c - 1)), 4 * (20 + 6 * (c - 1)))],
              [c \in {1, 2, 3} |-> IF c = 3 THEN {1, 2} ELSE {}])

SpecConc == InitConc /\ [][Next]_vars

\* A buffer larger than INT_MAX bytes (pointers are wider than int).
BigWords == (2 ^ IntBits) \div 4

BigBuf == [w \in 1..BigWords |-> w % 5]

IntMultiples == {v \in IntMin..IntMax : v % 4 = 0}

\* One call on the big buffer, every record inside it.
InitOff ==
    \E cnt \in 0..MaxCount, stride \in IntMultiples, offset \in IntMultiples :
        /\ \A j \in 0..(cnt - 1) :
              /\ j * stride + offset >= 0
              /\ j * stride + offset + 12 <= 4 * BigWords
        /\ Start(Block(Affine(IdentityRows, AffineLast), Junk, BigBuf),
                 [c \in {1} |->
                    BlockArgs(1, FALSE, cnt, [stride |-> stride, offset |-> offset])],
                 [c \in {1} |-> {}])

SpecOff == InitOff /\ [][Next]_vars

\* ------------------------------------------------------------ observations
Calls == DOMAIN args

Axes == 0..2

\* The contract's degenerate case, stated on the arguments.
DegenerateCall(c) == args[c].vertices = NULL \/ args[c].vertex_count <= 0

Returned(c) == pc[c] = "done"

OutMin(c) == [k \in Axes |-> mem[WordOf(args[c].out_min) + k]]

OutMax(c) == [k \in Axes |-> mem[WordOf(args[c].out_max) + k]]

OutWords(c) == Words3(args[c].out_min) \cup Words3(args[c].out_max)

Zero3 == [k \in Axes |-> 0]

Records(c) == 0..(args[c].vertex_count - 1)

\* Byte address of record j's position, in exact arithmetic.
RecordAddr(c, j) ==
    args[c].vertices + j * args[c].stride_bytes + args[c].position_offset

\* Raw coordinate k of record j.
Raw(c, j, k) == mem[WordOf(RecordAddr(c, j)) + k]

\* Coefficient n of row k: column-major index k + 4n.
Coef(c, k, n) == mem[WordOf(args[c].matrix) + k + 4 * n]

\* Coordinate k of the affine image of record j, in single precision.
Transformed(c, j, k) ==
    FAdd(FAdd(FAdd(FMul(Coef(c, k, 0), Raw(c, j, 0)),
                   FMul(Coef(c, k, 1), Raw(c, j, 1))),
              FMul(Coef(c, k, 2), Raw(c, j, 2))),
         Coef(c, k, 3))

TransformedSet(c, k) == {Transformed(c, j, k) : j \in Records(c)}

RawSet(c, k) == {Raw(c, j, k) : j \in Records(c)}

\* <= on floats: false as soon as an operand is NaN.
FLe(a, b) == a # NaN /\ b # NaN /\ a <= b

\* m is the minimum (maximum) of S: a member that every member bounds.
IsMinOf(m, S) == m \in S /\ \A v \in S : FLe(m, v)

IsMaxOf(m, S) == m \in S /\ \A v \in S : FLe(v, m)

NoNaN(c) == \A k \in Axes : NaN \notin TransformedSet(c, k)

IsIdentityCall(c) ==
    \A k \in Axes, n \in 0..3 : Coef(c, k, n) = IF n = k THEN 1 ELSE 0

\* ------------------------------------------------------------ C1
\* C1: after a call with vertex_count > 0 and a buffer, out_min[k] is the
\* minimum and out_max[k] the maximum over all records of the transformed
\* coordinate k; with the identity matrix that is the box of the raw positions.
C1_BoundsAreExtrema ==
    \A c \in Calls :
        (Returned(c) /\ ~DegenerateCall(c)) =>
            \A k \in Axes :
                /\ IsMinOf(OutMin(c)[k], TransformedSet(c, k))
                /\ IsMaxOf(OutMax(c)[k], TransformedSet(c, k))
                /\ IsIdentityCall(c) =>
                      /\ IsMinOf(OutMin(c)[k], RawSet(c, k))
                      /\ IsMaxOf(OutMax(c)[k], RawSet(c, k))

ExampleVertices == <<<<0, 0, 0>>, <<1, 2, 3>>, <<-1, 5, 0>>>>

IsExampleCall(c) ==
    /\ ~DegenerateCall(c) /\ IsIdentityCall(c) /\ args[c].vertex_count = 3
    /\ \A j \in 0..2, k \in Axes : Raw(c, j, k) = ExampleVertices[j + 1][k + 1]

\* C1 (amended): on every axis k on which no record's transformed coordinate is
\* NaN, out_min[k] is the minimum and out_max[k] the maximum over all records of
\* the transformed coordinate k, and with the identity matrix that of the raw
\* coordinate k; {(0,0,0),(1,2,3),(-1,5,0)} gives (-1,0,0) and (1,5,3).
C1_BoundsAreExtrema_Ordered ==
    \A c \in Calls :
        (Returned(c) /\ ~DegenerateCall(c)) =>
            /\ \A k \in Axes :
                  NaN \notin TransformedSet(c, k) =>
                      /\ IsMinOf(OutMin(c)[k], TransformedSet(c, k))
                      /\ IsMaxOf(OutMax(c)[k], TransformedSet(c, k))
                      /\ IsIdentityCall(c) =>
                            /\ IsMinOf(OutMin(c)[k], RawSet(c, k))
                            /\ IsMaxOf(OutMax(c)[k], RawSet(c, k))
            /\ IsExampleCall(c) =>
                  /\ OutMin(c) = [k \in Axes |-> <<-1, 0, 0>>[k + 1]]
                  /\ OutMax(c) = [k \in Axes |-> <<1, 5, 3>>[k + 1]]

\* The spec's example has returned its box.
C1_Witness ==
    \E c \in Calls :
        /\ Returned(c)
        /\ IsExampleCall(c)
        /\ OutMin(c)[0] = -1 /\ OutMax(c)[1] = 5 /\ OutMax(c)[2] = 3

\* A box under a matrix with translation and mixed signs, three records.
C1_WitnessAffine ==
    \E c \in Calls :
        /\ Returned(c) /\ ~DegenerateCall(c)
        /\ args[c].vertex_count = 3
        /\ Coef(c, 0, 1) = -1 /\ Coef(c, 0, 3) = 1
        /\ NoNaN(c)
        /\ \A k \in Axes : OutMin(c)[k] # OutMax(c)[k]

\* ------------------------------------------------------------ C2
\* C2: a call with vertices null or vertex_count <= 0 reads no vertex record
\* and no matrix element and returns with (0,0,0) in out_min and out_max; every
\* call that returns has stored to all six output floats.
C2_DegenerateZero ==
    \A c \in Calls :
        /\ DegenerateCall(c) =>
              /\ reads[c] = {}
              /\ Returned(c) => (OutMin(c) = Zero3 /\ OutMax(c) = Zero3)
        /\ Returned(c) => \A w \in OutWords(c) : wcount[c][w] >= 1

\* A returned call on a non-null, non-empty buffer with count 0.
C2_Witness ==
    \E c \in Calls :
        /\ Returned(c)
        /\ args[c].vertices # NULL
        /\ args[c].vertex_count = 0
        /\ WordOf(args[c].vertices) \in DOMAIN mem

\* A returned call with a null buffer and a positive count.
C2_WitnessNull ==
    \E c \in Calls :
        Returned(c) /\ args[c].vertices = NULL /\ args[c].vertex_count > 0

\* ------------------------------------------------------------ C3
\* C3: after a call with vertex_count > 0 and a buffer, out_min[k] <= out_max[k]
\* on every axis, for every matrix and every vertex data.
C3_MinLeMax ==
    \A c \in Calls :
        (Returned(c) /\ ~DegenerateCall(c)) =>
            \A k \in Axes : FLe(OutMin(c)[k], OutMax(c)[k])

\* C3 (amended): after a call with vertex_count > 0 and a buffer,
\* out_min[k] <= out_max[k] holds on exactly the axes k on which record 0's
\* transformed coordinate is not NaN.
C3_MinLeMax_SeedOrdered ==
    \A c \in Calls :
        (Returned(c) /\ ~DegenerateCall(c)) =>
            \A k \in Axes :
                FLe(OutMin(c)[k], OutMax(c)[k]) <=> Transformed(c, 0, k) # NaN

\* A returned call whose record 0 is ordered on every axis, with a later record
\* that transforms to NaN, and a box that is not a point.
C3_Witness ==
    \E c \in Calls :
        /\ Returned(c) /\ ~DegenerateCall(c)
        /\ args[c].vertex_count >= 2
        /\ \A k \in Axes : Transformed(c, 0, k) # NaN
        /\ \E j \in Records(c) : Transformed(c, j, 0) = NaN
        /\ \A k \in Axes : FLt(OutMin(c)[k], OutMax(c)[k])

\* ------------------------------------------------------------ C6
\* The affine block of the call's matrix is s on the diagonal, 0 elsewhere.
IsUniformScaleCall(c, s) ==
    \A k \in Axes, n \in 0..3 : Coef(c, k, n) = IF n = k THEN s ELSE 0

ScaleFactor(c) == Coef(c, 0, 0)

\* C6: under a pure uniform scale s with vertex_count > 0, out_min = s*rawMin
\* and out_max = s*rawMax when s > 0, and out_min = s*rawMax and
\* out_max = s*rawMin when s < 0, rawMin/rawMax the corners of the raw box.
C6_UniformScale ==
    \A c \in Calls :
        (/\ Returned(c) /\ ~DegenerateCall(c)
         /\ IsUniformScaleCall(c, ScaleFactor(c))
         /\ FLt(ScaleFactor(c), 0) \/ FGt(ScaleFactor(c), 0)) =>
            \A k \in Axes : \A lo, hi \in RawSet(c, k) :
                (IsMinOf(lo, RawSet(c, k)) /\ IsMaxOf(hi, RawSet(c, k))) =>
                    IF FGt(ScaleFactor(c), 0)
                    THEN /\ OutMin(c)[k] = FMul(ScaleFactor(c), lo)
                         /\ OutMax(c)[k] = FMul(ScaleFactor(c), hi)
                    ELSE /\ OutMin(c)[k] = FMul(ScaleFactor(c), hi)
                         /\ OutMax(c)[k] = FMul(ScaleFactor(c), lo)

AllRawFinite(c) ==
    \A j \in Records(c), k \in Axes : Raw(c, j, k) \in -FMax..FMax

\* C6 (amended): under a pure uniform scale by a finite s # 0, with
\* vertex_count > 0 and every raw coordinate finite, out_min = s*rawMin and
\* out_max = s*rawMax when s > 0, and out_min = s*rawMax and out_max = s*rawMin
\* when s < 0, the products taken in single precision.
C6_UniformScale_Finite ==
    \A c \in Calls :
        (/\ Returned(c) /\ ~DegenerateCall(c) /\ AllRawFinite(c)
         /\ IsUniformScaleCall(c, ScaleFactor(c))
         /\ ScaleFactor(c) \in -FMax..FMax
         /\ FLt(ScaleFactor(c), 0) \/ FGt(ScaleFactor(c), 0)) =>
            \A k \in Axes : \A lo, hi \in RawSet(c, k) :
                (IsMinOf(lo, RawSet(c, k)) /\ IsMaxOf(hi, RawSet(c, k))) =>
                    IF FGt(ScaleFactor(c), 0)
                    THEN /\ OutMin(c)[k] = FMul(ScaleFactor(c), lo)
                         /\ OutMax(c)[k] = FMul(ScaleFactor(c), hi)
                    ELSE /\ OutMin(c)[k] = FMul(ScaleFactor(c), hi)
                         /\ OutMax(c)[k] = FMul(ScaleFactor(c), lo)

\* A negative scale has swapped the corners of a raw box that is not a point.
C6_Witness ==
    \E c \in Calls :
        /\ Returned(c) /\ ~DegenerateCall(c) /\ AllRawFinite(c)
        /\ args[c].vertex_count >= 2
        /\ IsUniformScaleCall(c, -2)
        /\ \E lo, hi \in RawSet(c, 0) :
              /\ IsMinOf(lo, RawSet(c, 0)) /\ IsMaxOf(hi, RawSet(c, 0))
              /\ lo < hi
              /\ OutMin(c)[0] = FMul(-2, hi) /\ OutMax(c)[0] = FMul(-2, lo)

\* A positive scale on a raw box that is not a point.
C6_WitnessPositive ==
    \E c \in Calls :
        /\ Returned(c) /\ ~DegenerateCall(c) /\ AllRawFinite(c)
        /\ args[c].vertex_count >= 2
        /\ IsUniformScaleCall(c, 2)
        /\ FLt(OutMin(c)[1], OutMax(c)[1])

\* ------------------------------------------------------------ C9
RunMin(l) == [k \in Axes |-> <<l.minx, l.miny, l.minz>>[k + 1]]

RunMax(l) == [k \in Axes |-> <<l.maxx, l.maxy, l.maxz>>[k + 1]]

\* After iteration i-1: the running bounds enclose records 0..i-1 and each
\* is the transformed coordinate of one of them.
C9_Enclosed(c) ==
    (pc[c] = "loop" /\ loc[c].i >= 1) =>
        \A k \in Axes :
            /\ \A j \in 0..(loc[c].i - 1) :
                  /\ FLe(RunMin(loc[c])[k], Transformed(c, j, k))
                  /\ FLe(Transformed(c, j, k), RunMax(loc[c])[k])
            /\ \E j \in 0..(loc[c].i - 1) : RunMin(loc[c])[k] = Transformed(c, j, k)
            /\ \E j \in 0..(loc[c].i - 1) : RunMax(loc[c])[k] = Transformed(c, j, k)

\* At loop exit every transformed vertex lies within [out_min, out_max].
C9_Contained(c) ==
    (Returned(c) /\ ~DegenerateCall(c)) =>
        \A k \in Axes, j \in Records(c) :
            /\ FLe(OutMin(c)[k], Transformed(c, j, k))
            /\ FLe(Transformed(c, j, k), OutMax(c)[k])

\* Across an iteration after the first the running min does not increase and
\* the running max does not decrease.
C9_Monotone(c) ==
    (pc[c] = "loop" /\ loc[c].i >= 1 /\ loc'[c].i = loc[c].i + 1) =>
        \A k \in Axes :
            /\ ~FGt(RunMin(loc'[c])[k], RunMin(loc[c])[k])
            /\ ~FLt(RunMax(loc'[c])[k], RunMax(loc[c])[k])

\* C9: the loop invariant of the reduction: after the iteration for record i
\* the running min is <= and the running max >= the transformed coordinate of
\* every record 0..i, each running bound is the transformed coordinate of one
\* of them, the bounds move monotonically, and at exit every transformed
\* vertex lies within [out_min, out_max].
C9_LoopInvariant ==
    /\ [](\A c \in Calls : C9_Enclosed(c) /\ C9_Contained(c))
    /\ [][\A c \in Calls : C9_Monotone(c)]_vars

\* The enclosure on an axis none of whose first i transformed coordinates is NaN.
C9_EnclosedOrdered(c) ==
    (pc[c] = "loop" /\ loc[c].i >= 1) =>
        \A k \in Axes :
            /\ \E j \in 0..(loc[c].i - 1) : RunMin(loc[c])[k] = Transformed(c, j, k)
            /\ \E j \in 0..(loc[c].i - 1) : RunMax(loc[c])[k] = Transformed(c, j, k)
            /\ (\A j \in 0..(loc[c].i - 1) : Transformed(c, j, k) # NaN) =>
                  \A j \in 0..(loc[c].i - 1) :
                      /\ FLe(RunMin(loc[c])[k], Transformed(c, j, k))
                      /\ FLe(Transformed(c, j, k), RunMax(loc[c])[k])

C9_ContainedOrdered(c) ==
    (Returned(c) /\ ~DegenerateCall(c)) =>
        \A k \in Axes :
            NaN \notin TransformedSet(c, k) =>
                \A j \in Records(c) :
                    /\ FLe(OutMin(c)[k], Transformed(c, j, k))
                    /\ FLe(Transformed(c, j, k), OutMax(c)[k])

\* C9 (amended): after the iteration for record i each running bound is the
\* transformed coordinate of some record in 0..i (no zero seed survives), the
\* running min never increases and the running max never decreases, and on an
\* axis where no transformed coordinate of records 0..i is NaN the running min
\* is <= and the running max >= each of them; at exit every transformed vertex
\* lies within [out_min, out_max] on each axis free of NaN.
C9_LoopInvariant_Ordered ==
    /\ [](\A c \in Calls : C9_EnclosedOrdered(c) /\ C9_ContainedOrdered(c))
    /\ [][\A c \in Calls : C9_Monotone(c)]_vars

\* After the third iteration, no NaN so far, a running min below the seed and
\* a running max above it.
C9_Witness ==
    \E c \in Calls :
        /\ pc[c] = "loop" /\ loc[c].i = 3
        /\ \A k \in Axes, j \in 0..2 : Transformed(c, j, k) # NaN
        /\ FLt(RunMin(loc[c])[0], Transformed(c, 0, 0))
        /\ FGt(RunMax(loc[c])[1], Transformed(c, 0, 1))

\* ------------------------------------------------------------ pairs of calls
SameShape(c, d) ==
    /\ args[c].vertex_count = args[d].vertex_count
    /\ (args[c].vertices = NULL) <=> (args[d].vertices = NULL)

SameCoefs(c, d) == \A k \in Axes, n \in 0..3 : Coef(c, k, n) = Coef(d, k, n)

SameResult(c, d) == OutMin(c) = OutMin(d) /\ OutMax(c) = OutMax(d)

PosOf(c, j) == <<Raw(c, j, 0), Raw(c, j, 1), Raw(c, j, 2)>>

\* Same positions in the same order (on calls that read records at all).
SamePositions(c, d) ==
    ~DegenerateCall(c) => \A j \in Records(c) : PosOf(c, j) = PosOf(d, j)

Occurrences(c, v) == Cardinality({j \in Records(c) : PosOf(c, j) = v})

\* The records of d are those of c in some order.
SameRecordsReordered(c, d) ==
    ~DegenerateCall(c) =>
        \A j \in Records(c) :
            Occurrences(c, PosOf(c, j)) = Occurrences(d, PosOf(c, j))

\* ------------------------------------------------------------ C4
\* C4: permutation invariance: with the same matrix, stride and offset, a
\* buffer and any reordering of its records give identical out_min and out_max.
C4_PermutationInvariant ==
    \A c, d \in Calls :
        (/\ Returned(c) /\ Returned(d) /\ SameShape(c, d) /\ SameCoefs(c, d)
         /\ args[c].stride_bytes = args[d].stride_bytes
         /\ args[c].position_offset = args[d].position_offset
         /\ SameRecordsReordered(c, d))
        => SameResult(c, d)

\* C4 (amended): permutation invariance where no record's transformed
\* coordinate is NaN: with the same matrix, stride and offset, a buffer and any
\* reordering of its records give equal out_min and out_max.
C4_PermutationInvariant_Ordered ==
    \A c, d \in Calls :
        (/\ Returned(c) /\ Returned(d) /\ SameShape(c, d) /\ SameCoefs(c, d)
         /\ args[c].stride_bytes = args[d].stride_bytes
         /\ args[c].position_offset = args[d].position_offset
         /\ SameRecordsReordered(c, d)
         /\ ~DegenerateCall(c) => NoNaN(c))
        => SameResult(c, d)

\* Three records in two different orders, no NaN, both boxes returned and not
\* a point on any axis.
C4_Witness ==
    /\ Returned(1) /\ Returned(2)
    /\ ~DegenerateCall(1) /\ SameShape(1, 2)
    /\ args[1].vertex_count = 3
    /\ SameRecordsReordered(1, 2)
    /\ PosOf(1, 0) # PosOf(2, 0) /\ PosOf(1, 2) # PosOf(2, 2)
    /\ NoNaN(1)
    /\ \A k \in Axes : FLt(OutMin(2)[k], OutMax(2)[k])

\* ------------------------------------------------------------ C5
IsPacked(c) == args[c].stride_bytes = 12 /\ args[c].position_offset = 0

MatrixWords(c) == WordOf(args[c].matrix) .. (WordOf(args[c].matrix) + 15)

\* The words of the positions of records 0..n-1.
PositionWords(c, n) ==
    {WordOf(RecordAddr(c, j)) + k : j \in 0..(n - 1), k \in Axes}

\* C5: stride/offset correctness: a buffer whose records carry padding before
\* and/or after the position gives the same out_min and out_max as the tightly
\* packed buffer of the same positions in the same order; record i is read at
\* byte offset i*stride_bytes + position_offset, and no padding is read.
C5_StrideOffset ==
    /\ \A c, d \in Calls :
          (/\ Returned(c) /\ Returned(d) /\ SameShape(c, d) /\ SameCoefs(c, d)
           /\ IsPacked(d) /\ SamePositions(c, d))
          => SameResult(c, d)
    /\ \A c \in Calls :
          /\ pc[c] # "fault"
          /\ (~DegenerateCall(c) /\ pc[c] # "entry") =>
                reads[c] \ MatrixWords(c) = PositionWords(c, loc[c].i)
          /\ (~DegenerateCall(c) /\ Returned(c)) =>
                loc[c].i = args[c].vertex_count

\* Both calls returned; call 1 read three or more records with padding on both
\* sides of the position, the padding holding NaN, and its box is not a point.
C5_Witness ==
    /\ Returned(1) /\ Returned(2)
    /\ args[1].vertex_count >= 2
    /\ args[1].vertices # NULL
    /\ args[1].position_offset > 0
    /\ args[1].stride_bytes > args[1].position_offset + 12
    /\ IsPacked(2)
    /\ mem[WordOf(args[1].vertices)] = NaN
    /\ \A k \in Axes : OutMin(1)[k] # NaN /\ OutMin(1)[k] # OutMax(1)[k]

\* ------------------------------------------------------------ C7
SameInputs(c, d) ==
    /\ args[c].vertices = args[d].vertices
    /\ args[c].vertex_count = args[d].vertex_count
    /\ args[c].stride_bytes = args[d].stride_bytes
    /\ args[c].position_offset = args[d].position_offset
    /\ args[c].matrix = args[d].matrix

\* The call the caller makes with every other call returned.
RunsAlone(d) == after[d] = Calls \ {d}

\* C7: calls in parallel on the same read-only vertex buffer and matrix, each
\* with its own output pair: under every interleaving each call's outputs are
\* those of the same call run alone, and a call stores to nothing but its own
\* six output floats.
C7_ConcurrentSafety ==
    /\ \A c, d \in Calls :
          (Returned(c) /\ Returned(d) /\ RunsAlone(d) /\ SameInputs(c, d))
          => SameResult(c, d)
    /\ \A c \in Calls :
          /\ pc[c] # "fault"
          /\ \A w \in DOMAIN mem : wcount[c][w] > 0 => w \in OutWords(c)

\* The parallel calls and the call made alone have all returned, on two or
\* more records, with a box that is not a point.
C7_Witness ==
    /\ Cardinality(Calls) = 3
    /\ \A c \in Calls : Returned(c)
    /\ after[1] = {} /\ after[2] = {} /\ RunsAlone(3)
    /\ SameInputs(1, 3) /\ SameInputs(2, 3)
    /\ args[1].vertices # NULL /\ args[1].vertex_count >= 2
    /\ \E k \in Axes : OutMin(1)[k] # OutMax(1)[k]

\* Both parallel calls are inside the loop, at different records.
C7_WitnessInterleaved ==
    /\ Cardinality(Calls) = 3
    /\ pc[1] = "loop" /\ pc[2] = "loop"
    /\ loc[1].i = 1 /\ loc[2].i = 2

\* ------------------------------------------------------------ C8
LastRowWords(c) == {WordOf(args[c].matrix) + j : j \in {3, 7, 11, 15}}

\* Agreement on what the claim lists: count, stride, offset, positions and the
\* twelve entries at 0,1,2,4,5,6,8,9,10,12,13,14.
AgreeOnReadInputs(c, d) ==
    /\ SameShape(c, d)
    /\ args[c].stride_bytes = args[d].stride_bytes
    /\ args[c].position_offset = args[d].position_offset
    /\ SameCoefs(c, d)
    /\ SamePositions(c, d)

\* C8: two calls that agree on vertex_count, stride, offset, every position and
\* the twelve matrix entries outside the last row give identical out_min and
\* out_max whatever the last row (indices 3, 7, 11, 15) and the prior contents
\* of the outputs: neither is read, and each output float is stored once.
C8_Independence ==
    /\ \A c, d \in Calls :
          (Returned(c) /\ Returned(d) /\ AgreeOnReadInputs(c, d))
          => SameResult(c, d)
    /\ \A c \in Calls :
          /\ reads[c] \cap (LastRowWords(c) \cup OutWords(c)) = {}
          /\ \A w \in OutWords(c) :
                /\ wcount[c][w] <= 1
                /\ Returned(c) => wcount[c][w] = 1

\* Both calls returned on two or more records; the second was passed a last
\* row of NaN where the first had (0,0,0,1); the box is not a point.
C8_Witness ==
    /\ Returned(1) /\ Returned(2)
    /\ AgreeOnReadInputs(1, 2)
    /\ args[1].vertices # NULL /\ args[1].vertex_count >= 2
    /\ \A w \in LastRowWords(2) : mem[w] = NaN
    /\ \A w \in LastRowWords(1) : mem[w] # NaN
    /\ \E k \in Axes : OutMin(2)[k] # NaN /\ OutMin(2)[k] # OutMax(2)[k]

\* The second call is about to store out_max over prior contents of NaN, its
\* out_min already equal to the first call's.
C8_WitnessPrior ==
    /\ Returned(1) /\ pc[2] = "write_max"
    /\ AgreeOnReadInputs(1, 2)
    /\ args[1].vertices # NULL /\ args[1].vertex_count >= 2
    /\ OutMax(2) = [k \in Axes |-> NaN]
    /\ \A k \in Axes : OutMin(2)[k] # NaN

\* ------------------------------------------------------------ C10
\* Record j lies inside the caller's vertex buffer (the last object in memory).
InsideBuffer(c, j) ==
    /\ RecordAddr(c, j) >= args[c].vertices
    /\ RecordAddr(c, j) + 12 <= 4 * (Len(mem) + 1)

\* The record the last executed iteration addressed.
LastRecord(c) == IF pc[c] = "fault" THEN loc[c].i ELSE loc[c].i - 1

Iterated(c) == (pc[c] = "loop" /\ loc[c].i >= 1) \/ pc[c] = "fault"

\* C10: for every record i whose mathematical offset
\* i*stride_bytes + position_offset lies inside the caller's buffer, the address
\* the routine forms with int arithmetic is base plus that offset: the product
\* and the sum never wrap.
C10_OffsetExact ==
    \A c \in Calls :
        (Iterated(c) /\ InsideBuffer(c, LastRecord(c))) =>
            loc[c].pos = RecordAddr(c, LastRecord(c))

\* C10 where the product and the sum are representable in int.
C10_OffsetExact_InRange ==
    \A c \in Calls :
        (/\ Iterated(c) /\ InsideBuffer(c, LastRecord(c))
         /\ InInt(LastRecord(c) * args[c].stride_bytes)
         /\ InInt(LastRecord(c) * args[c].stride_bytes + args[c].position_offset))
        => /\ loc[c].pos = RecordAddr(c, LastRecord(c))
           /\ pc[c] # "fault"

====
